---- MODULE Spec2Model ----
(***************************************************************************)
(* A model of crawler.py: the date-sharded, paginated crawl of the GitHub  *)
(* search API (crawl_range), its HTTP client with bounded retry            *)
(* (graphql_request), and the two Postgres upserts (upsert_repos,          *)
(* upsert_history).                                                        *)
(*                                                                         *)
(* Dates are day numbers (timedelta(days=n) is +n).  Wall-clock time is    *)
(* counted in ticks of 1/TicksPerSec second, so that int() truncation and  *)
(* the 0.2 s pause are representable.                                      *)
(***************************************************************************)
EXTENDS Integers, Sequences, FiniteSets, TLC

\* ---------------------------------------------------------------- bounds
MaxDay == 3          \* dates range over 0..MaxDay
MaxWindow == 1       \* WINDOW_DAYS ranges over 0..MaxWindow
MaxTarget == 2       \* REPOS_TO_FETCH ranges over 1..MaxTarget
MaxPages == 2        \* pages the remote serves for one shard
MaxClock == 0        \* datetime.utcnow() ranges over 0..MaxClock in a crawl
MaxCallClock == 1    \* and over 0..MaxCallClock in SpecStore
MaxCalls == 3        \* direct calls of the upserts in SpecStore

\* ------------------------------------------------------ program constants
PAGE_SIZE == 100
MAX_ATTEMPTS_Four == 6 - 2
MAX_ATTEMPTS == 6
RATE_THRESHOLD == 50
RATE_MARGIN == 5
TicksPerSec == 10
PauseTicks == 2

None == "None"

Min(a, b) == IF a <= b THEN a ELSE b
Max(a, b) == IF a >= b THEN a ELSE b

Pow2_Linear(n) == 2 * n
RECURSIVE Pow2(_)
Pow2(n) == IF n = 0 THEN 1 ELSE 2 * Pow2(n - 1)

\* int(x) for x given in ticks: truncation toward zero, in whole seconds
IntTrunc(ticks) ==
    IF ticks >= 0 THEN ticks \div TicksPerSec ELSE -((-ticks) \div TicksPerSec)

\* --------------------------------------------------------- python values
\* A Python value that can sit in r['meta']: None or a dict of string items.
PyNone == [py |-> "None", items |-> <<>>]
PyDict(items) == [py |-> "dict", items |-> items]

RECURSIVE JsonItems(_)
JsonItems(items) ==
    IF items = <<>> THEN ""
    ELSE "\"" \o items[1][1] \o "\": \"" \o items[1][2] \o "\""
         \o (IF Len(items) > 1 THEN ", " ELSE "") \o JsonItems(Tail(items))

\* json.dumps: None becomes the text null, a dict becomes {...}
json_dumps(v) ==
    IF v.py = "None" THEN "null" ELSE "{" \o JsonItems(v.items) \o "}"

\* ------------------------------------------------------------ SQL values
\* A nullable column value: SQL NULL, or a non-null text.
SqlNull == [isnull |-> TRUE, text |-> ""]
SqlText(s) == [isnull |-> FALSE, text |-> s]
COALESCE(a, b) == IF a.isnull THEN b ELSE a

\* psycopg2 adapts a Python str (what json.dumps returns) to a non-null text
AdaptStr(s) == SqlText(s)

\* ------------------------------------------------------------- the store
\* A table is the sequence of its rows, so that a duplicate row would show.

HasDuplicate(keys) ==
    \E i, j \in 1..Len(keys) : i < j /\ keys[i] = keys[j]

\* vals of upsert_repos: one tuple per record, metadata = json.dumps(r['meta'])
RepoVals(repos, t) ==
    [i \in 1..Len(repos) |->
        [repo_id |-> repos[i].id, full_name |-> repos[i].full_name,
         name |-> repos[i].name, owner_login |-> repos[i].owner,
         stars |-> repos[i].stars, url |-> repos[i].url,
         metadata |-> AdaptStr(json_dumps(repos[i].meta)),
         last_scraped |-> t]]

RepoIndex(table, id) ==
    IF \E i \in 1..Len(table) : table[i].repo_id = id
    THEN CHOOSE i \in 1..Len(table) : table[i].repo_id = id
    ELSE 0

RepoConflictUpdate_All(old, excluded) == excluded

\* ON CONFLICT (repo_id) DO UPDATE SET stars, metadata, last_scraped
RepoConflictUpdate(old, excluded) ==
    [old EXCEPT !.stars = excluded.stars,
                !.metadata = COALESCE(excluded.metadata, old.metadata),
                !.last_scraped = excluded.last_scraped]

InsertRepoRow_NoConflict(table, v) == Append(table, v)
InsertRepoRow(table, v) ==
    LET i == RepoIndex(table, v.repo_id)
    IN IF i = 0 THEN Append(table, v)
       ELSE [table EXCEPT ![i] = RepoConflictUpdate(table[i], v)]

RECURSIVE InsertRepoRows(_, _)
InsertRepoRows(table, vals) ==
    IF vals = <<>> THEN table
    ELSE InsertRepoRows(InsertRepoRow(table, Head(vals)), Tail(vals))

\* One INSERT ... ON CONFLICT DO UPDATE statement and its commit.  Postgres
\* rejects a statement that would touch the same row twice; then nothing is
\* committed and the call raises.
upsert_repos(table, repos, t) ==
    LET vals == RepoVals(repos, t)
    IN IF HasDuplicate([i \in 1..Len(vals) |-> vals[i].repo_id])
       THEN [ok |-> FALSE, table |-> table]
       ELSE [ok |-> TRUE, table |-> InsertRepoRows(table, vals)]

HistIndex(table, id, day) ==
    IF \E i \in 1..Len(table) : table[i].repo_id = id /\ table[i].snapshot_at = day
    THEN CHOOSE i \in 1..Len(table) :
            table[i].repo_id = id /\ table[i].snapshot_at = day
    ELSE 0

\* ON CONFLICT (repo_id, snapshot_at) DO UPDATE SET stars = EXCLUDED.stars
HistConflictUpdate_Nothing(old, excluded) == old
HistConflictUpdate(old, excluded) == [old EXCEPT !.stars = excluded.stars]

InsertHistRow_NoConflict(table, v) == Append(table, v)
InsertHistRow(table, v) ==
    LET i == HistIndex(table, v.repo_id, v.snapshot_at)
    IN IF i = 0 THEN Append(table, v)
       ELSE [table EXCEPT ![i] = HistConflictUpdate(table[i], v)]

RECURSIVE InsertHistRows(_, _)
InsertHistRows(table, rows) ==
    IF rows = <<>> THEN table
    ELSE InsertHistRows(InsertHistRow(table, Head(rows)), Tail(rows))

upsert_history(table, rows) ==
    IF HasDuplicate([i \in 1..Len(rows) |-> <<rows[i].repo_id, rows[i].snapshot_at>>])
    THEN [ok |-> FALSE, table |-> table]
    ELSE [ok |-> TRUE, table |-> InsertHistRows(table, rows)]

\* ------------------------------------------------------------ the remote
\* A node of the search result (lines 48-56 of the query).
Node(id, name, login, stars, created) ==
    [id |-> id, name |-> name, url |-> "u/" \o login \o "/" \o name,
     stargazerCount |-> stars, owner |-> [login |-> login], createdAt |-> created]

\* The nodes lists the remote may answer with: empty, one repository, the same
\* repository after a rename with more stars, two repositories.
NodePages ==
    { << >>,
      << Node("R1", "a", "o", 1, "t1") >>,
      << Node("R1", "b", "o", 2, "t1") >>,
      << Node("R2", "a", "p", 1, "t2") >>,
      << Node("R2", "a", "p", 1, "t2"), Node("R1", "a", "o", 1, "t1") >> }

Cursors == {"c1"}

\* pageInfo as the remote may answer it
PageInfos ==
    { [endCursor |-> c, hasNextPage |-> TRUE] : c \in Cursors }
    \cup { [endCursor |-> c, hasNextPage |-> FALSE] : c \in Cursors \cup {None} }

\* rateLimit of a response, and the reading of time.time() at line 130 (ticks)
RateSnapshots ==
    { [remaining |-> 50, resetAt |-> 100, time |-> 700],
      [remaining |-> 10, resetAt |-> 100, time |-> 700],
      [remaining |-> 49, resetAt |-> 100, time |-> 695],
      [remaining |-> 49, resetAt |-> 100, time |-> 1045] }

TransientStatus == {502, 503, 504}
ErrorStatus == {401, 500}
OtherStatus == {202}

\* ------------------------------------------------------------- the mapper
MapNode(n) ==
    [id |-> n.id, name |-> n.name, owner |-> n.owner.login,
     full_name |-> n.owner.login \o "/" \o n.name,
     stars |-> n.stargazerCount, url |-> n.url,
     meta |-> PyDict(<< <<"createdAt", n.createdAt>> >>)]

MapNodes(nodes) == [i \in 1..Len(nodes) |-> MapNode(nodes[i])]

HistRows(nodes, day) ==
    [i \in 1..Len(nodes) |->
        [repo_id |-> nodes[i].id, stars |-> nodes[i].stargazerCount, snapshot_at |-> day]]

\* ------------------------------------------------------- the rate governor
\* dtparse(resetAt).timestamp(): whole seconds to ticks
ResetTs(resetAt) == resetAt * TicksPerSec

sleep_sec(snap) ==
    Max(1, IntTrunc(ResetTs(snap.resetAt) - snap.time) + RATE_MARGIN)

\* the sleeps (in ticks) of lines 128-132
RateGovernor_AtMost(snap) ==
    IF snap.remaining <= RATE_THRESHOLD
    THEN << sleep_sec(snap) * TicksPerSec >>
    ELSE << >>
RateGovernor(snap) ==
    IF snap.remaining < RATE_THRESHOLD
    THEN << sleep_sec(snap) * TicksPerSec >>
    ELSE << >>

\* ------------------------------------------------------------------ state
VARIABLES
    start_date, end_date,       \* arguments of crawl_range
    WINDOW_DAYS, REPOS_TO_FETCH,\* configuration (lines 26, 28)
    now,                        \* datetime.utcnow().date() of line 109
    pc,                         \* "start", "request", "returned",
                                \* "upsert_repos", "upsert_history", "done",
                                \* "raised", "api"
    err,                        \* the exception that left crawl_range, or None
    total, current_start, current_end, cursor, has_next,
    attempt,                    \* loop variable of graphql_request
    transients,                 \* 502/503/504 answers to the current call
    page,                       \* pages of the current shard already answered
    mapped, hist,               \* lines 139-151
    repositories, repo_star_history,
    utc,                        \* latest datetime.utcnow() seen by upsert_repos
    r,                          \* the HTTP response of the last step, if any
    rl,                         \* its rateLimit and the clock reading
    slept,                      \* time.sleep calls of the last step, in ticks
    shards,                     \* the (current_start, current_end) of line 113
    asked,                      \* the cursors of the graphql_request calls of
                                \* the current shard (line 119), in order
    handed,                     \* the endCursor of each page read in the
                                \* current shard (line 136), in order
    written,                    \* samples handed to upsert_history calls that
                                \* committed (line 154)
    callLog                     \* the direct calls of the upserts, in order

config == <<start_date, end_date, WINDOW_DAYS, REPOS_TO_FETCH, now>>
control == <<pc, err, total, current_start, current_end, cursor, has_next,
             attempt, transients, page, mapped, hist>>
store == <<repositories, repo_star_history, utc>>
observed == <<r, rl, slept, shards, asked, handed, written>>
direct == <<callLog>>
vars == <<config, control, store, observed, direct>>

NoResponse == [status_code |-> 0, body |-> "none"]
NoSnapshot == [remaining |-> -1, resetAt |-> 0, time |-> 0]

Init ==
    /\ start_date \in 0..MaxDay
    /\ end_date \in start_date..MaxDay
    /\ WINDOW_DAYS \in 0..MaxWindow
    /\ REPOS_TO_FETCH \in 1..MaxTarget
    /\ now = MaxDay + 1
    /\ pc = "start"
    /\ err = None
    /\ total = 0
    /\ current_start = start_date
    /\ current_end = start_date
    /\ cursor = None
    /\ has_next = TRUE
    /\ attempt = 0
    /\ transients = 0
    /\ page = 0
    /\ mapped = <<>>
    /\ hist = <<>>
    /\ repositories = <<>>
    /\ repo_star_history = <<>>
    /\ utc = 0
    /\ r = NoResponse
    /\ rl = NoSnapshot
    /\ slept = <<>>
    /\ shards = <<>>
    /\ handed = <<>>
    /\ asked = <<>>
    /\ written = 0
    /\ callLog = <<>>

\* ------------------------------------------------------------ crawl_range
\* Line 111, evaluated with current_start = cs and total = tot; on entry to
\* the body, lines 112-115.  cur and hn are the locals left as they are when
\* the loop ends.
OuterLoop(cs, tot, cur, hn) ==
    IF cs < end_date /\ tot < REPOS_TO_FETCH
    THEN LET ce == Min(end_date, cs + WINDOW_DAYS)
         IN [pc |-> "request", current_start |-> cs, current_end |-> ce,
             cursor |-> None, has_next |-> TRUE, page |-> 0,
             shards |-> Append(shards, <<cs, ce>>)]
    ELSE [pc |-> "done", current_start |-> cs, current_end |-> current_end,
          cursor |-> cur, has_next |-> hn, page |-> page, shards |-> shards]

\* Line 160, then line 111: the shard after the current one.
NextShard_Overlap(tot, cur, hn) == OuterLoop(current_end, tot, cur, hn)
NextShard(tot, cur, hn) == OuterLoop(current_end + 1, tot, cur, hn)

\* Line 117, evaluated after a page; when it fails, lines 160 and 111.
InnerLoop_NoTarget(hn, cur, tot) ==
    IF hn
    THEN [pc |-> "request", current_start |-> current_start,
          current_end |-> current_end, cursor |-> cur, has_next |-> hn,
          page |-> page + 1, shards |-> shards]
    ELSE NextShard(tot, cur, hn)
InnerLoop_StaleCursor(hn, cur, tot) ==
    IF hn /\ tot < REPOS_TO_FETCH
    THEN [pc |-> "request", current_start |-> current_start,
          current_end |-> current_end, cursor |-> asked[Len(asked)],
          has_next |-> hn, page |-> page + 1, shards |-> shards]
    ELSE NextShard(tot, cur, hn)
InnerLoop(hn, cur, tot) ==
    IF hn /\ tot < REPOS_TO_FETCH
    THEN [pc |-> "request", current_start |-> current_start,
          current_end |-> current_end, cursor |-> cur, has_next |-> hn,
          page |-> page + 1, shards |-> shards]
    ELSE NextShard(tot, cur, hn)

\* Control moves to c, the head of a loop: a new graphql_request call starts
\* with attempt 0, and the page's lists are dead (line 139 rebuilds them).
\* h lists the endCursor values read so far in the shard being left or
\* continued.
GotoWith(c, h) ==
    /\ mapped' = <<>>
    /\ hist' = <<>>
    /\ pc' = c.pc
    /\ current_start' = c.current_start
    /\ current_end' = c.current_end
    /\ cursor' = c.cursor
    /\ has_next' = c.has_next
    /\ page' = c.page
    /\ shards' = c.shards
    /\ asked' = IF c.pc = "request"
                THEN IF c.page = 0 THEN <<c.cursor>>
                     ELSE Append(asked, c.cursor)
                ELSE asked
    /\ handed' = IF c.pc = "request" /\ c.page = 0 THEN <<>> ELSE h
    /\ attempt' = 0
    /\ transients' = 0

Goto(c) == GotoWith(c, handed)

\* An exception leaves crawl_range: nothing catches it (lines 107-162, 169).
Raise(e) ==
    /\ pc' = "raised"
    /\ err' = e
    /\ UNCHANGED <<current_start, current_end, cursor, has_next, page, shards,
                   asked, handed, attempt, transients>>

\* Lines 108-111: entry of crawl_range.
Start ==
    /\ pc = "start"
    /\ Goto(OuterLoop(start_date, 0, cursor, has_next))
    /\ r' = NoResponse /\ rl' = NoSnapshot
    /\ slept' = <<>>
    /\ UNCHANGED <<config, err, total, written, store, direct>>

\* Lines 65-67: HTTP 200; graphql_request returns r.json() to line 119.
Post200 ==
    /\ pc = "request"
    /\ pc' = "returned"
    /\ r' = [status_code |-> 200, body |-> "json"]
    /\ rl' = NoSnapshot
    /\ slept' = <<>>
    /\ UNCHANGED <<config, err, total, written, current_start, current_end,
                   cursor,
                   has_next, attempt, transients, page, mapped, hist, shards,
                   asked, handed,
                   store, direct>>

\* Lines 120-151 (and 158 for an empty page): the body is a data page.  The
\* rate governor sleeps and the nodes are mapped.
PageData(nodes, info, snap) ==
    /\ pc = "returned"
    /\ Len(nodes) <= PAGE_SIZE
    /\ info.hasNextPage => page + 1 < MaxPages
    /\ r' = [status_code |-> 200, body |-> "data"]
    /\ rl' = snap
    /\ IF Len(MapNodes(nodes)) > 0
       THEN /\ mapped' = MapNodes(nodes)
            /\ hist' = HistRows(nodes, now)
            /\ pc' = "upsert_repos"
            /\ cursor' = info.endCursor
            /\ has_next' = info.hasNextPage
            /\ attempt' = 0
            /\ transients' = 0
            /\ slept' = RateGovernor(snap)
            /\ handed' = Append(handed, info.endCursor)
            /\ UNCHANGED <<current_start, current_end, page, shards, asked>>
       ELSE /\ GotoWith(InnerLoop(info.hasNextPage, info.endCursor, total),
                     Append(handed, info.endCursor))
            /\ slept' = RateGovernor(snap) \o <<PauseTicks>>
    /\ UNCHANGED <<config, err, total, written, store, direct>>

PageErrors_Continue ==
    /\ pc = "returned"
    /\ r' = [status_code |-> 200, body |-> "errors"]
    /\ rl' = NoSnapshot
    /\ slept' = <<>>
    /\ pc' = "request"
    /\ attempt' = 0
    /\ transients' = 0
    /\ UNCHANGED <<config, err, total, written, current_start, current_end,
                   cursor,
                   has_next, page, mapped, hist, shards, asked, handed, store,
                   direct>>

\* Lines 120-122: the body carries "errors": break.
PageErrors ==
    /\ pc = "returned"
    /\ r' = [status_code |-> 200, body |-> "errors"]
    /\ rl' = NoSnapshot
    /\ slept' = <<>>
    /\ Goto(NextShard(total, cursor, has_next))
    /\ UNCHANGED <<config, err, total, written, store, direct>>

\* Lines 68-72 and 75: a transient status; back off, then the next attempt,
\* or RuntimeError when range(6) is used up.
PostTransient(status) ==
    /\ pc = "request"
    /\ r' = [status_code |-> status, body |-> "none"]
    /\ rl' = NoSnapshot
    /\ slept' = << Pow2(attempt) * TicksPerSec >>
    /\ IF attempt + 1 < MAX_ATTEMPTS
       THEN /\ attempt' = attempt + 1
            /\ transients' = transients + 1
            /\ UNCHANGED <<pc, err, current_start, current_end, cursor, has_next,
                           page, shards, asked, handed>>
       ELSE Raise("RuntimeError")
    /\ UNCHANGED <<config, total, written, mapped, hist, store, direct>>

PostHTTPError_Retry(status) == PostTransient(status)

PostHTTPError_SkipShard(status) ==
    /\ pc = "request"
    /\ r' = [status_code |-> status, body |-> "none"]
    /\ rl' = NoSnapshot
    /\ slept' = <<>>
    /\ Goto(NextShard(total, cursor, has_next))
    /\ UNCHANGED <<config, err, total, written, store, direct>>

\* Lines 73-74: raise_for_status raises for 4xx and 5xx.
PostHTTPError(status) ==
    /\ pc = "request"
    /\ r' = [status_code |-> status, body |-> "none"]
    /\ rl' = NoSnapshot
    /\ slept' = <<>>
    /\ Raise("HTTPError")
    /\ UNCHANGED <<config, total, written, mapped, hist, store, direct>>

\* Lines 73-75: any other status; raise_for_status returns and the for loop
\* goes on to its next attempt without a sleep.
PostOther(status) ==
    /\ pc = "request"
    /\ r' = [status_code |-> status, body |-> "none"]
    /\ rl' = NoSnapshot
    /\ slept' = <<>>
    /\ IF attempt + 1 < MAX_ATTEMPTS
       THEN /\ attempt' = attempt + 1
            /\ UNCHANGED <<pc, err, current_start, current_end, cursor, has_next,
                           page, shards, asked, handed, transients>>
       ELSE Raise("RuntimeError")
    /\ UNCHANGED <<config, total, written, mapped, hist, store, direct>>

UpsertReposOK_HistoryFirst(t) ==
    /\ pc = "upsert_repos"
    /\ upsert_history(repo_star_history, hist).ok
    /\ repo_star_history' = upsert_history(repo_star_history, hist).table
    /\ utc' = t
    /\ pc' = "upsert_history"
    /\ r' = NoResponse /\ rl' = NoSnapshot
    /\ slept' = <<>>
    /\ UNCHANGED <<config, err, total, written, current_start, current_end,
                   cursor, has_next, attempt, transients, page, mapped, hist,
                   repositories, shards, asked, handed, direct>>

\* Line 65: requests.post itself raises (no answer within timeout=30, or no
\* connection); nothing catches it.
PostRaises ==
    /\ pc = "request"
    /\ r' = NoResponse
    /\ rl' = NoSnapshot
    /\ slept' = <<>>
    /\ Raise("RequestException")
    /\ UNCHANGED <<config, total, written, mapped, hist, store, direct>>

\* Line 153: upsert_repos commits.
UpsertReposOK(t) ==
    /\ pc = "upsert_repos"
    /\ upsert_repos(repositories, mapped, t).ok
    /\ repositories' = upsert_repos(repositories, mapped, t).table
    /\ utc' = t
    /\ pc' = "upsert_history"
    /\ r' = NoResponse /\ rl' = NoSnapshot
    /\ slept' = <<>>
    /\ UNCHANGED <<config, err, total, written, current_start, current_end,
                   cursor,
                   has_next, attempt, transients, page, mapped, hist,
                   repo_star_history,
                   shards, asked, handed, direct>>

\* Line 153: upsert_repos raises (the statement is rejected, or the database
\* fails); nothing of the call is committed.
UpsertReposFail ==
    /\ pc = "upsert_repos"
    /\ Raise("DBError")
    /\ r' = NoResponse /\ rl' = NoSnapshot
    /\ slept' = <<>>
    /\ UNCHANGED <<config, total, written, mapped, hist, store, direct>>

UpsertHistoryOK_CountOne ==
    /\ pc = "upsert_history"
    /\ upsert_history(repo_star_history, hist).ok
    /\ repo_star_history' = upsert_history(repo_star_history, hist).table
    /\ total' = total + 1
    /\ written' = written + Len(hist)
    /\ slept' = <<PauseTicks>>
    /\ Goto(InnerLoop(has_next, cursor, total + 1))
    /\ r' = NoResponse /\ rl' = NoSnapshot
    /\ UNCHANGED <<config, err, repositories, utc, direct>>

\* Lines 154-158 and the loop tests that follow: upsert_history commits,
\* total grows, the 0.2 s pause.
UpsertHistoryOK ==
    /\ pc = "upsert_history"
    /\ upsert_history(repo_star_history, hist).ok
    /\ repo_star_history' = upsert_history(repo_star_history, hist).table
    /\ total' = total + Len(mapped)
    /\ written' = written + Len(hist)
    /\ slept' = <<PauseTicks>>
    /\ Goto(InnerLoop(has_next, cursor, total + Len(mapped)))
    /\ r' = NoResponse /\ rl' = NoSnapshot
    /\ UNCHANGED <<config, err, repositories, utc, direct>>

UpsertHistoryFail_Swallow ==
    /\ pc = "upsert_history"
    /\ Goto(InnerLoop(has_next, cursor, total))
    /\ r' = NoResponse /\ rl' = NoSnapshot
    /\ slept' = <<>>
    /\ UNCHANGED <<config, err, total, written, store, direct>>

\* Line 154: upsert_history raises.
UpsertHistoryFail ==
    /\ pc = "upsert_history"
    /\ Raise("DBError")
    /\ r' = NoResponse /\ rl' = NoSnapshot
    /\ slept' = <<>>
    /\ UNCHANGED <<config, total, written, mapped, hist, store, direct>>

\* requests.post of line 65, with each answer it may get
HttpPost ==
    \/ Post200
    \/ \E status \in TransientStatus : PostTransient(status)
    \/ \E status \in ErrorStatus : PostHTTPError(status)
    \/ \E status \in OtherStatus : PostOther(status)
    \/ PostRaises

Next ==
    \/ Start
    \/ Post200
    \/ \E status \in TransientStatus : PostTransient(status)
    \/ \E status \in ErrorStatus : PostHTTPError(status)
    \/ \E status \in OtherStatus : PostOther(status)
    \/ PostRaises
    \/ \E nodes \in NodePages, info \in PageInfos, snap \in RateSnapshots :
          PageData(nodes, info, snap)
    \/ PageErrors
    \/ \E t \in utc..MaxClock : UpsertReposOK(t)
    \/ UpsertReposFail
    \/ UpsertHistoryOK
    \/ UpsertHistoryFail

Spec == Init /\ [][Next]_vars

\* The interpreter runs one thread and goes on to its next statement: every
\* sleep ends and every requests.post is answered or raises within its
\* timeout (line 65), so a step that can be taken is taken.
SpecLive == Init /\ [][Next]_vars /\ WF_vars(Next)

\* ------------------------------------------------------- a run after a run
\* main() opens whatever database DATABASE_URL names (lines 164-170): the
\* tables may hold what an earlier run left there.  An earlier run of the
\* same day that read the page nodes, written with the same two statements.
PriorNodes == << Node("R0", "z", "o", 1, "t0"), Node("R1", "a", "o", 1, "t1") >>

PriorRun(nodes, day) ==
    [repositories |-> upsert_repos(<< >>, MapNodes(nodes), 0).table,
     repo_star_history |-> upsert_history(<< >>, HistRows(nodes, day)).table]

\* an empty database, a finished earlier page, and an earlier run that ended
\* between line 153 and line 154
PriorStores(day) ==
    { [repositories |-> << >>, repo_star_history |-> << >>],
      PriorRun(PriorNodes, day),
      [repositories |-> PriorRun(PriorNodes, day).repositories,
       repo_star_history |-> << >>] }

InitRerun ==
    /\ start_date = 0
    /\ end_date = MaxDay
    /\ WINDOW_DAYS = MaxWindow
    /\ REPOS_TO_FETCH = MaxTarget
    /\ now = MaxDay + 1
    /\ pc = "start"
    /\ err = None
    /\ total = 0
    /\ current_start = start_date
    /\ current_end = start_date
    /\ cursor = None
    /\ has_next = TRUE
    /\ attempt = 0
    /\ transients = 0
    /\ page = 0
    /\ mapped = <<>>
    /\ hist = <<>>
    /\ \E prior \in PriorStores(now) :
          /\ repositories = prior.repositories
          /\ repo_star_history = prior.repo_star_history
    /\ utc = 0
    /\ r = NoResponse
    /\ rl = NoSnapshot
    /\ slept = <<>>
    /\ shards = <<>>
    /\ handed = <<>>
    /\ asked = <<>>
    /\ written = 0
    /\ callLog = <<>>

SpecRerun == InitRerun /\ [][Next]_vars

\* -------------------------------------------- the upserts, called directly
\* upsert_repos and upsert_history take any records, not only those the
\* mapper builds: SpecStore calls them on an open connection.
Meta1 == PyDict(<< <<"createdAt", "t1">> >>)
EmptyDict == PyDict(<< >>)

Record(id, name, login, stars, meta) ==
    [id |-> id, name |-> name, owner |-> login, full_name |-> login \o "/" \o name,
     stars |-> stars, url |-> "u/" \o login \o "/" \o name, meta |-> meta]

RepoBatches ==
    { << Record("R1", "a", "o", 1, Meta1) >>,
      << Record("R1", "a", "o", 1, PyNone) >>,
      << Record("R1", "a", "o", 1, EmptyDict) >>,
      << Record("R1", "b", "o", 2, Meta1) >>,
      << Record("R2", "a", "p", 1, Meta1) >>,
      << Record("R1", "a", "o", 2, Meta1), Record("R2", "a", "p", 2, PyNone) >>,
      << Record("R1", "a", "o", 1, Meta1), Record("R1", "a", "o", 1, Meta1) >> }

Sample(id, stars, day) == [repo_id |-> id, stars |-> stars, snapshot_at |-> day]

HistBatches ==
    { << Sample("R1", 1, 3) >>,
      << Sample("R1", 2, 3) >>,
      << Sample("R1", 1, 4) >>,
      << Sample("R2", 1, 3), Sample("R1", 2, 3) >>,
      << Sample("R2", 1, 3), Sample("R2", 2, 3) >> }

InitStore ==
    /\ start_date = 0 /\ end_date = 0
    /\ WINDOW_DAYS = 0 /\ REPOS_TO_FETCH = 1
    /\ now = 3
    /\ pc = "api"
    /\ err = None
    /\ total = 0 /\ current_start = 0 /\ current_end = 0
    /\ cursor = None /\ has_next = TRUE /\ attempt = 0 /\ transients = 0
    /\ page = 0
    /\ mapped = <<>> /\ hist = <<>>
    /\ repositories = <<>> /\ repo_star_history = <<>> /\ utc = 0
    /\ r = NoResponse /\ rl = NoSnapshot /\ slept = <<>> /\ shards = <<>>
    /\ asked = <<>> /\ handed = <<>> /\ written = 0
    /\ callLog = <<>>

\* Lines 82-95, called with the records repos at datetime.utcnow() = t.
CallUpsertRepos(repos, t) ==
    /\ pc = "api"
    /\ Len(callLog) < MaxCalls
    /\ repositories' = upsert_repos(repositories, repos, t).table
    /\ utc' = t
    /\ callLog' = Append(callLog, [op |-> "upsert_repos", arg |-> repos,
                                   ok |-> upsert_repos(repositories, repos, t).ok])
    /\ UNCHANGED <<config, control, repo_star_history, observed>>

\* Lines 97-105, called with the samples rows.
CallUpsertHistory(rows) ==
    /\ pc = "api"
    /\ Len(callLog) < MaxCalls
    /\ repo_star_history' = upsert_history(repo_star_history, rows).table
    /\ callLog' = Append(callLog, [op |-> "upsert_history", arg |-> rows,
                                   ok |-> upsert_history(repo_star_history, rows).ok])
    /\ UNCHANGED <<config, control, repositories, utc, observed>>

NextStore ==
    \/ \E repos \in RepoBatches, t \in utc..MaxCallClock : CallUpsertRepos(repos, t)
    \/ \E rows \in HistBatches : CallUpsertHistory(rows)

SpecStore == InitStore /\ [][NextStore]_vars

\* ================================================================ claims
ShardsCovering(d) == { i \in 1..Len(shards) : shards[i][1] <= d /\ d <= shards[i][2] }

\* C1: when the run ends without reaching the target and without an error,
\* every day from start_date through end_date lies in exactly one shard.
C1_FullCoverage ==
    (pc = "done" /\ err = None /\ total < REPOS_TO_FETCH)
        => \A d \in start_date..end_date : Cardinality(ShardsCovering(d)) = 1

\* C2: once total has reached REPOS_TO_FETCH no HTTP request is issued any
\* more, and the step that reaches the target ends the run.
C2_StopAtTarget ==
    [][ /\ (total >= REPOS_TO_FETCH => ~HttpPost)
        /\ (total' >= REPOS_TO_FETCH => pc' = "done") ]_vars

\* C2 witness: the target is met on the first page of the second shard while
\* that shard has more pages and the range has more days; the run is over.
C2_Witness ==
    /\ pc = "done" /\ total >= REPOS_TO_FETCH
    /\ Len(shards) = 2 /\ page = 0 /\ has_next
    /\ current_start < end_date

\* C10: each shard starts the day after the previous one ends, and no shard
\* starts after its own end.
C10_Contiguous ==
    /\ \A i \in 1..Len(shards) : shards[i][1] <= shards[i][2]
    /\ \A i \in 1..(Len(shards) - 1) : shards[i][2] + 1 = shards[i + 1][1]

C10_Witness == Len(shards) >= 2 /\ shards[1][1] < shards[1][2]

\* ---- the upserts
IsEmptyMeta(m) == m.py = "None" \/ m.items = << >>
IsEmptyMetadata(col) == col.isnull \/ col.text = "null" \/ col.text = "{}"
LastCall == callLog[Len(callLog)]
RowsOf(table, id) == { i \in 1..Len(table) : table[i].repo_id = id }
SamplesOf(table, id, day) ==
    { i \in 1..Len(table) : table[i].repo_id = id /\ table[i].snapshot_at = day }

\* C3: an upsert whose record has empty or absent metadata leaves the stored
\* non-empty metadata of that repo_id as it was.
C3_MergeOnNull ==
    [][ \A i \in 1..Len(repositories) : \A j \in 1..Len(LastCall'.arg) :
          ( /\ LastCall'.op = "upsert_repos" /\ LastCall'.ok
            /\ LastCall'.arg[j].id = repositories[i].repo_id
            /\ IsEmptyMeta(LastCall'.arg[j].meta)
            /\ ~IsEmptyMetadata(repositories[i].metadata) )
          => repositories'[i].metadata = repositories[i].metadata ]_vars

\* C4: the second of two identical upsert_repos calls (non-empty metadata)
\* succeeds and leaves, for each of its records, exactly one row of that
\* repo_id, with the star count and metadata the first call left.
C4_Idempotent ==
    [][ ( /\ Len(callLog) >= 1
          /\ LastCall.op = "upsert_repos" /\ LastCall.ok
          /\ LastCall'.op = "upsert_repos" /\ LastCall'.arg = LastCall.arg
          /\ \A j \in 1..Len(LastCall.arg) : ~IsEmptyMeta(LastCall.arg[j].meta) )
        => /\ LastCall'.ok
           /\ Len(repositories') = Len(repositories)
           /\ \A j \in 1..Len(LastCall.arg) :
                LET rec == LastCall.arg[j]
                IN /\ Cardinality(RowsOf(repositories', rec.id)) = 1
                   /\ \A i \in RowsOf(repositories', rec.id) :
                        /\ repositories'[i].stars = rec.stars
                        /\ repositories'[i].stars = repositories[i].stars
                        /\ repositories'[i].metadata = repositories[i].metadata
                        /\ ~IsEmptyMetadata(repositories'[i].metadata) ]_vars

C4_Witness ==
    /\ Len(callLog) >= 2
    /\ LastCall.op = "upsert_repos" /\ LastCall.ok
    /\ callLog[Len(callLog) - 1] = LastCall
    /\ LastCall.arg[1].meta = Meta1
    /\ Cardinality(RowsOf(repositories, LastCall.arg[1].id)) = 1

\* C5: a successful upsert_history leaves exactly one row per (repo_id,
\* snapshot_at) of its samples, holding the sample's star count; of the rows
\* that were there, nothing but the star count of those keys changes.
C5_HistoryLatest ==
    [][ (LastCall'.op = "upsert_history" /\ LastCall'.ok)
        => /\ \A j \in 1..Len(LastCall'.arg) :
                LET x == LastCall'.arg[j]
                    at == SamplesOf(repo_star_history', x.repo_id, x.snapshot_at)
                IN /\ Cardinality(at) = 1
                   /\ \A i \in at : repo_star_history'[i].stars = x.stars
           /\ Len(repo_star_history') >= Len(repo_star_history)
           /\ \A i \in 1..Len(repo_star_history) :
                /\ repo_star_history'[i].repo_id = repo_star_history[i].repo_id
                /\ repo_star_history'[i].snapshot_at = repo_star_history[i].snapshot_at
                /\ (\A j \in 1..Len(LastCall'.arg) :
                        <<LastCall'.arg[j].repo_id, LastCall'.arg[j].snapshot_at>>
                        # <<repo_star_history[i].repo_id, repo_star_history[i].snapshot_at>>)
                   => repo_star_history'[i] = repo_star_history[i]
           /\ \A i \in (Len(repo_star_history) + 1)..Len(repo_star_history') :
                \E j \in 1..Len(LastCall'.arg) :
                    repo_star_history'[i] = LastCall'.arg[j]
           /\ repositories' = repositories ]_vars

\* C5 witness: (R1, day 3) was upserted with 1 star, later with 2 stars.
C5_Witness ==
    /\ Len(callLog) >= 2
    /\ LastCall = [op |-> "upsert_history", arg |-> << Sample("R1", 2, 3) >>, ok |-> TRUE]
    /\ callLog[1] = [op |-> "upsert_history", arg |-> << Sample("R1", 1, 3) >>, ok |-> TRUE]
    /\ Cardinality(SamplesOf(repo_star_history, "R1", 3)) = 1
    /\ \A i \in SamplesOf(repo_star_history, "R1", 3) : repo_star_history[i].stars = 2

\* ---- the requests
\* C6: up to 5 transient answers in a row leave the call trying, with no error
\* and nothing written; a 200 answer at any attempt returns without an error;
\* its non-empty page then goes through upsert_repos once and upsert_history
\* once, and no other step writes.
C6_RetryThenOneWrite ==
    [][ /\ ( /\ pc = "request" /\ transients = attempt /\ attempt <= 4
             /\ r'.status_code \in {502, 503, 504} )
           => /\ pc' = "request" /\ err' = None
              /\ attempt' = attempt + 1 /\ transients' = transients + 1
              /\ UNCHANGED <<repositories, repo_star_history, total, cursor,
                             current_start, current_end, page>>
        /\ (pc = "request" /\ transients <= 5 /\ r'.status_code = 200)
           => /\ pc' = "returned" /\ err' = None
              /\ UNCHANGED <<repositories, repo_star_history, total, transients>>
        /\ (pc = "returned" /\ r'.body = "data" /\ pc' # "upsert_repos")
           => mapped' = << >>
        /\ (pc = "returned" /\ r'.body = "data" /\ pc' = "upsert_repos")
           => Len(mapped') > 0 /\ err' = None
        /\ (pc = "upsert_repos" /\ pc' # "raised")
           => /\ pc' = "upsert_history" /\ mapped' = mapped
              /\ repositories' = upsert_repos(repositories, mapped, utc').table
        /\ (pc = "upsert_history" /\ pc' # "raised")
           => /\ pc' \in {"request", "done"} /\ mapped' = << >>
              /\ repo_star_history' = upsert_history(repo_star_history, hist).table
              /\ (pc' = "request" => attempt' = 0 /\
                    (page' = page + 1 \/ current_start' > current_end))
        /\ (repositories' # repositories => pc = "upsert_repos")
        /\ (repo_star_history' # repo_star_history => pc = "upsert_history") ]_vars

\* C6 witness: 4 transient answers, then 200: the call has returned its page.
C6_Witness ==
    pc = "returned" /\ transients = 4 /\ attempt = 4 /\ err = None

C8_ErrorsSkipShard ==
    [][ (r'.body = "errors")
        => /\ pc = "returned" /\ r'.status_code = 200
           /\ UNCHANGED <<repositories, repo_star_history, total>>
           /\ err' = None
           /\ IF current_end + 1 < end_date
              THEN /\ pc' = "request" /\ attempt' = 0
                   /\ current_start' = current_end + 1
                   /\ cursor' = None /\ page' = 0
                   /\ Len(shards') = Len(shards) + 1
              ELSE pc' = "done" ]_vars

C8_Witness ==
    /\ r.body = "errors" /\ pc = "request"
    /\ Len(shards) = 2 /\ repositories # << >>

\* C9: after a data page, a rate-limit sleep is taken exactly when remaining
\* is below 50; it lasts max(1, (resetAt - now) + 5) seconds, up to the
\* truncation of resetAt - now to whole seconds (less than one second), and
\* exactly that when resetAt - now is a whole number of seconds.  The only
\* other sleep of the step is the 0.2 s pause after an empty page.
C9_RateGovernor ==
    (r.body = "data") =>
        LET diff == rl.resetAt * TicksPerSec - rl.time
            claimed == Max(1 * TicksPerSec, diff + 5 * TicksPerSec)
            pause == IF pc = "upsert_repos" THEN << >> ELSE << PauseTicks >>
        IN IF rl.remaining < 50
           THEN /\ Len(slept) >= 1
                /\ slept[1] - claimed < TicksPerSec
                /\ claimed - slept[1] < TicksPerSec
                /\ (diff % TicksPerSec = 0 => slept[1] = claimed)
                /\ slept[1] % TicksPerSec = 0
                /\ Tail(slept) = pause
           ELSE slept = pause

\* C9 witness: remaining = 10, resetAt = now + 30 s: a sleep of 35 s.
C9_Witness ==
    /\ r.body = "data" /\ rl.remaining = 10
    /\ rl.resetAt * TicksPerSec - rl.time = 30 * TicksPerSec
    /\ slept[1] = 35 * TicksPerSec

\* ---- second group of claims
\* C11: with a window of at least one day, the days start..end a shard puts
\* into the search predicate (both bounds included) are at most WINDOW_DAYS.
C11_ShardWidth ==
    WINDOW_DAYS >= 1 =>
        \A i \in 1..Len(shards) : shards[i][2] - shards[i][1] + 1 <= WINDOW_DAYS

\* C12: whatever pages a run writes, on an empty store or on the store an
\* earlier run of the same day left, no two repositories rows share a repo_id
\* and no two repo_star_history rows share (repo_id, snapshot_at).
C12_OneRowPerKey ==
    /\ \A i, j \in 1..Len(repositories) :
          repositories[i].repo_id = repositories[j].repo_id => i = j
    /\ \A i, j \in 1..Len(repo_star_history) :
          ( /\ repo_star_history[i].repo_id = repo_star_history[j].repo_id
            /\ repo_star_history[i].snapshot_at = repo_star_history[j].snapshot_at )
          => i = j

\* R0 was sampled today by the earlier run only; R1 was sampled by it and
\* again by this run on pages of two shards.
C12_Witness ==
    /\ pc = "done"
    /\ Len(shards) >= 2
    /\ written >= 2
    /\ SamplesOf(repo_star_history, "R0", now) # {}
    /\ \E i \in SamplesOf(repo_star_history, "R1", now) :
          repo_star_history[i].stars = 2
    /\ \E i \in RowsOf(repositories, "R1") : repositories[i].stars = 2

\* C13: a graphql_request call posts at most 6 times (attempt 0..5); after a
\* 502/503/504 answer to attempt k it has slept 2^k seconds; and when the
\* answer to attempt 5 is transient too the call ends in RuntimeError rather
\* than in a result or a seventh post.
C13_BoundedBackoff ==
    /\ attempt \in 0..5
    /\ transients <= attempt
    /\ r.status_code \in {502, 503, 504} =>
          \/ /\ pc = "request"
             /\ attempt >= 1
             /\ slept = << (2 ^ (attempt - 1)) * TicksPerSec >>
          \/ /\ pc = "raised"
             /\ err = "RuntimeError"
             /\ attempt = 5
             /\ slept = << (2 ^ 5) * TicksPerSec >>

\* six transient answers in a row
C13_Witness ==
    /\ pc = "raised"
    /\ err = "RuntimeError"
    /\ transients = 5
    /\ r.status_code = 503
    /\ slept = << 32 * TicksPerSec >>

\* C14: a step that leaves upsert_repos or upsert_history without its commit
\* (a page Postgres rejects included) ends the run with the database error:
\* the fetched count and both tables stay as they were, and from the raised
\* state there is no step at all, so no request and no write follows.
C14_PersistenceFailureAborts ==
    [][ /\ pc # "raised"
        /\ (pc = "upsert_repos" /\ pc' # "upsert_history") =>
              /\ pc' = "raised" /\ err' = "DBError"
              /\ total' = total
              /\ UNCHANGED <<repositories, repo_star_history>>
        /\ (pc = "upsert_repos" /\ ~upsert_repos(repositories, mapped, utc).ok) =>
              pc' = "raised"
        /\ (pc = "upsert_history" /\ total' # total + Len(mapped)) =>
              /\ pc' = "raised" /\ err' = "DBError"
              /\ total' = total
              /\ UNCHANGED <<repositories, repo_star_history>>
        /\ (pc = "upsert_history" /\ ~upsert_history(repo_star_history, hist).ok) =>
              pc' = "raised" ]_vars

\* upsert_history failed after upsert_repos of the same page had committed,
\* with more pages of the shard still to read
C14_Witness ==
    /\ pc = "raised"
    /\ err = "DBError"
    /\ has_next
    /\ total = 0
    /\ Len(mapped) > 0
    /\ repositories # << >>
    /\ repo_star_history = << >>

\* C15: an answer with a 4xx status is the last thing the run does: the step
\* that reads it raises HTTPError without a sleep and without moving on to
\* another attempt, and no step (so no second request) follows.
C15_ClientErrorNotRetried ==
    [][ /\ pc # "raised"
        /\ r'.status_code \in 400..499 =>
              /\ pc = "request"
              /\ pc' = "raised"
              /\ err' = "HTTPError"
              /\ slept' = << >>
              /\ attempt' = attempt ]_vars

\* a 401 to the first attempt for the second page of a shard
C15_Witness ==
    /\ pc = "raised"
    /\ err = "HTTPError"
    /\ r.status_code = 401
    /\ attempt = 0
    /\ page = 1
    /\ slept = << >>

\* C16: shard start dates strictly increase; the first request of a shard
\* carries no cursor and every later one the endCursor of the page read just
\* before it in that shard; and when the endCursor values the remote handed
\* out in a shard are distinct (and not null), no cursor is requested twice
\* in it.
C16_StrictOrder ==
    /\ \A i \in 1..(Len(shards) - 1) : shards[i][1] < shards[i + 1][1]
    /\ pc \in {"request", "returned"} =>
          /\ asked = << None >> \o handed
          /\ Len(asked) = page + 1
          /\ cursor = asked[Len(asked)]
    /\ pc \in {"upsert_repos", "upsert_history"} =>
          /\ handed # << >>
          /\ cursor = handed[Len(handed)]
          /\ asked = << None >> \o SubSeq(handed, 1, Len(handed) - 1)
    /\ ~HasDuplicate(<< None >> \o handed) => ~HasDuplicate(asked)

\* the second page of the second shard is being requested
C16_Witness ==
    /\ pc = "request"
    /\ Len(shards) >= 2
    /\ shards[1][1] < shards[2][1]
    /\ asked = << None, "c1" >>
    /\ handed = << "c1" >>

\* C17: in every state of a run started on a store where it holds (the state
\* between the two commits of a page and the state a failure leaves
\* included), each repo_id of repo_star_history has a repositories row.
C17_HistoryHasRepository ==
    \A i \in 1..Len(repo_star_history) :
        RowsOf(repositories, repo_star_history[i].repo_id) # {}

\* upsert_history failed for the page that brought R2, in a run started on
\* the store of an earlier run: R2 has its repositories row and no sample
C17_Witness ==
    /\ pc = "raised"
    /\ err = "DBError"
    /\ SamplesOf(repo_star_history, "R0", now) # {}
    /\ RowsOf(repositories, "R2") # {}
    /\ \A i \in 1..Len(repo_star_history) : repo_star_history[i].repo_id # "R2"

\* C18: a successful upsert_repos leaves repo_id, name, owner_login, full_name
\* and url of every row that was there as they were, whatever its records
\* carry; a row whose repo_id is among the records gets the record's star
\* count and the time of the call.
C18_ConflictFrame ==
    [][ (LastCall'.op = "upsert_repos" /\ LastCall'.ok)
        => /\ Len(repositories') >= Len(repositories)
           /\ \A i \in 1..Len(repositories) :
                /\ repositories'[i].repo_id = repositories[i].repo_id
                /\ repositories'[i].name = repositories[i].name
                /\ repositories'[i].owner_login = repositories[i].owner_login
                /\ repositories'[i].full_name = repositories[i].full_name
                /\ repositories'[i].url = repositories[i].url
                /\ \A j \in 1..Len(LastCall'.arg) :
                      LastCall'.arg[j].id = repositories[i].repo_id
                      => /\ repositories'[i].stars = LastCall'.arg[j].stars
                         /\ repositories'[i].last_scraped = utc' ]_vars

\* R1, stored as o/a, was upserted again under the name b with 2 stars
C18_Witness ==
    /\ Len(callLog) >= 2
    /\ callLog[1].op = "upsert_repos" /\ callLog[1].ok
    /\ callLog[1].arg[1].id = "R1" /\ callLog[1].arg[1].name = "a"
    /\ LastCall = [op |-> "upsert_repos",
                   arg |-> << Record("R1", "b", "o", 2, Meta1) >>, ok |-> TRUE]
    /\ \E i \in RowsOf(repositories, "R1") :
          /\ repositories[i].name = "a"
          /\ repositories[i].full_name = "o/a"
          /\ repositories[i].url = "u/o/a"
          /\ repositories[i].stars = 2

\* C19: while a request is out, total is below the target; total is the
\* number of nodes of the pages written so far; so, a page holding at most
\* PAGE_SIZE nodes, total never passes target - 1 + PAGE_SIZE (nor target - 1
\* plus the longest page the remote answers with).
C19_CountBound ==
    /\ pc \in {"request", "returned"} => total < REPOS_TO_FETCH
    /\ total = written
    /\ \A nodes \in NodePages : Len(nodes) <= PAGE_SIZE
    /\ total <= REPOS_TO_FETCH - 1 + PAGE_SIZE
    /\ \E nodes \in NodePages : total <= REPOS_TO_FETCH - 1 + Len(nodes)

\* a page of two nodes read at total = target - 1
C19_Witness ==
    /\ pc = "done"
    /\ REPOS_TO_FETCH = 2
    /\ total = 3
    /\ written = 3

\* C20: for start_date <= end_date, a window of 0 days or more and any
\* target, with every shard's pagination ending after finitely many pages,
\* crawl_range reaches its last line or raises.
C20_Terminates == <>(pc \in {"done", "raised"})

\* three shards of one day each, read to the end
C20_Witness ==
    /\ pc = "done"
    /\ WINDOW_DAYS = 0
    /\ Len(shards) >= 3
    /\ total < REPOS_TO_FETCH

====
